---- MODULE Spec2Model ----
(***************************************************************************)
(* State-machine model of src/app.py: a Streamlit script that simulates a  *)
(* random-walk signal, keeps a fixed-capacity calculation window (a deque  *)
(* with maxlen), runs one of three detectors over the window on each tick  *)
(* and records anomalies.                                                  *)
(*                                                                         *)
(* One script run is triggered per widget event (Start, Stop, Reset, the   *)
(* algorithm select box, the window-size slider, the parameter slider);    *)
(* the run handles the event, re-creates the deque when the slider value   *)
(* differs from its maxlen, and then, while running, iterates the          *)
(* simulation loop.                                                        *)
(*                                                                         *)
(* A widget event that arrives while the script runs stops the script at   *)
(* its next access to st.session_state, and the event's own run follows.   *)
(* A loop iteration (a tick) and the Reset handler change the session      *)
(* state in several statements, so they can be stopped part-way: Tick and  *)
(* Reset take the place where the script was stopped as a parameter and    *)
(* apply only the statements before it.  The other runs change the session *)
(* state only by the deque re-creation; stopped before it, they leave the  *)
(* deque's maxlen behind the slider until the next run.                    *)
(*                                                                         *)
(* Numbers.  Observations are integers (the model's generator emits        *)
(* integer values).  Z-Score and MAD thresholds are in tenths (3.0 is 30), *)
(* the contamination is in hundredths (0.05 is 5).  The detectors'         *)
(* comparisons are carried out exactly in integer arithmetic, including    *)
(* the 1e-9 stabiliser of the denominators.                                *)
(***************************************************************************)
EXTENDS Integers, Sequences, FiniteSets, TLC

VARIABLES
    running,        \* st.session_state.running
    data,           \* st.session_state.data: the deque's contents, oldest first
    maxlen,         \* st.session_state.data.maxlen
    anomaly_log,    \* st.session_state.anomaly_log, newest first
    price,          \* st.session_state.price
    all_data,       \* st.session_state.all_data
    all_anomalies,  \* st.session_state.all_anomalies: <<index, value>> pairs
    time_step,      \* st.session_state.time_step
    method,         \* the select box's value
    window_size,    \* the window-size slider's value
    param,          \* threshold (tenths) or contamination (hundredths)
    pc,             \* the current script run: "static", "loop", "error", "stopped"
    lastStep,       \* observation: the step that led to this state
    dropped,        \* observation: elements the last step evicted from the window
    pushes,         \* observation: the values pushed since the window was last
                    \* created or cleared, in push order
    stops           \* observation: the runs that were stopped part-way so far

vars == <<running, data, maxlen, anomaly_log, price, all_data, all_anomalies,
          time_step, method, window_size, param, pc, lastStep, dropped, pushes,
          stops>>

(***************************************************************************)
(* Bounds of the model.                                                    *)
(***************************************************************************)
\* The window-size slider's range (10..500 in the source) scaled down.
MinWindow == 2
MaxWindow == 3
\* Ticks explored by Spec, by SpecScenario and by SpecLog.
MaxTicks == 3
ScenarioTicks == 6
LogTicks == 53
\* The generator's values stay within PriceFloor..MaxPrice; a price left
\* unclamped by a stopped tick lies at most MaxDip below the floor.
MaxPrice == 100
MaxDip == 90
\* At most MaxStops runs of a behaviour are stopped part-way.
MaxStops == 1
\* SpecLog: detection ticks that emit no record.
MaxClean == 1

(***************************************************************************)
(* Program constants.                                                      *)
(***************************************************************************)
StartPrice == 100        \* st.session_state.price = 100.0
PriceFloor == 10         \* max(price, 10)
LogCap == 50             \* anomaly_log[:50]
EpsInv == 1000000000     \* 1 / 1e-9
MadScale == 6745         \* 0.6745, in ten-thousandths

ZSCORE == "Z-Score"
MAD == "Median Absolute Deviation (MAD)"
IFOREST == "Isolation Forest"
Methods == {ZSCORE, MAD, IFOREST}

WindowSizes == MinWindow..MaxWindow

\* Slider positions explored for each method (subsets of the sliders' ranges).
ParamChoices(m) ==
    IF m = ZSCORE THEN {10, 30}
    ELSE IF m = MAD THEN {35}
    ELSE {5}

\* Default slider positions: 3.0, 3.5 and 0.05.
ParamDefault(m) ==
    IF m = ZSCORE THEN 30
    ELSE IF m = MAD THEN 35
    ELSE 5

\* The generator's drift + shock, drawn from a small set of integers.
Deltas == {-90, 0, 90}

(***************************************************************************)
(* Arithmetic and sequence helpers.                                        *)
(***************************************************************************)
Abs(x) == IF x < 0 THEN -x ELSE x

Max2(a, b) == IF a >= b THEN a ELSE b

Min2(a, b) == IF a <= b THEN a ELSE b

RECURSIVE Sum(_)
Sum(s) == IF s = <<>> THEN 0 ELSE Head(s) + Sum(Tail(s))

RECURSIVE SumSq(_)
SumSq(s) == IF s = <<>> THEN 0 ELSE Head(s) * Head(s) + SumSq(Tail(s))

\* The last k elements of s, in order.
LastK(s, k) == SubSeq(s, Len(s) - k + 1, Len(s))

RECURSIVE Insert(_, _)
Insert(x, s) ==
    IF s = <<>> THEN <<x>>
    ELSE IF x <= Head(s) THEN <<x>> \o s
    ELSE <<Head(s)>> \o Insert(x, Tail(s))

RECURSIVE Sort(_)
Sort(s) == IF s = <<>> THEN <<>> ELSE Insert(Head(s), Sort(Tail(s)))

RECURSIVE Reverse(_)
Reverse(s) == IF s = <<>> THEN <<>> ELSE Append(Reverse(Tail(s)), Head(s))

\* Twice np.median(s): the middle element doubled, or the sum of the two
\* middle elements.
Median2(s) ==
    LET n == Len(s)
        t == Sort(s)
    IN IF n % 2 = 1 THEN 2 * t[(n + 1) \div 2]
       ELSE t[n \div 2] + t[n \div 2 + 1]

AllFalse(n) == [i \in 1..n |-> FALSE]

(***************************************************************************)
(* The calculation window: collections.deque with a maxlen.                *)
(***************************************************************************)
\* deque(items, maxlen=m): the items are appended in order, each append
\* evicting from the left once m elements are held.
deque_new(items, m) ==
    IF Len(items) > m THEN LastK(items, m) ELSE items

\* Mutant of deque_append: a full window gives up its newest element.
deque_append_drops_newest(d, m, x) ==
    IF m = 0 THEN <<>>
    ELSE IF Len(d) >= m THEN Append(SubSeq(d, 1, Len(d) - 1), x)
    ELSE Append(d, x)

\* d.append(x) on a deque of maxlen m.
deque_append(d, m, x) ==
    IF m = 0 THEN <<>>
    ELSE IF Len(d) >= m THEN Append(Tail(d), x)
    ELSE Append(d, x)

(***************************************************************************)
(* Detectors.  Each returns one flag per element of the series.            *)
(***************************************************************************)
\* Mutant of ZScoreExceeds: the mean and the deviation are taken over the
\* other elements only (the scored element is held out).
ZScoreExceedsHeldOut(series, i, T) ==
    LET rest == SubSeq(series, 1, i - 1) \o SubSeq(series, i + 1, Len(series))
        n == Len(rest)
        D == Abs(n * series[i] - Sum(rest))
        V == n * SumSq(rest) - Sum(rest) * Sum(rest)
        G == 100 * D * D - T * T * V
    IN G > (20 * D * T * n) \div EpsInv

\* abs((x - mean) / (std + 1e-9)) > threshold for element i, threshold T/10.
\* With n = len, S = sum, Q = sum of squares: n*|x - mean| = D = |n*x - S| and
\* n*std = sqrt(V), V = n*Q - S*S, so the test is 10*D - T*n/1e9 > T*sqrt(V).
\* Squaring, with G = 100*D*D - T*T*V, it is G > r*(20*D - r), r = T*n/1e9;
\* for 20*D*T*n < 1e9 the right side lies in [0, 1) and G is an integer.
ZScoreExceeds(series, i, T) ==
    LET n == Len(series)
        D == Abs(n * series[i] - Sum(series))
        V == n * SumSq(series) - Sum(series) * Sum(series)
        G == 100 * D * D - T * T * V
    IN G > (20 * D * T * n) \div EpsInv

detect_anomalies_zscore(series, threshold) ==
    IF Len(series) < 2 THEN AllFalse(Len(series))
    ELSE [i \in 1..Len(series) |-> ZScoreExceeds(series, i, threshold)]

\* 2 * |x - median| for every element.
AbsDev2(series) ==
    LET m2 == Median2(series)
    IN [i \in 1..Len(series) |-> Abs(2 * series[i] - m2)]

\* Mutant of Mad4: the mean of the absolute deviations instead of their median.
MeanAbsDev4(series) == (2 * Sum(AbsDev2(series))) \div Len(series)

\* 4 * mad, mad = np.median(np.abs(series - median)).
Mad4(series) == Median2(AbsDev2(series))

\* abs(0.6745 * (x - median) / (mad + 1e-9)) > threshold for element i,
\* threshold T/10.  Multiplied out by 4000 * (mad + 1e-9):
\*   1349 * dev2 > 100 * T * mad4 + 400 * T / 1e9,
\* and an integer exceeds a real r >= 0 exactly when it exceeds floor(r).
MadExceeds(series, i, T) ==
    LET dev2 == AbsDev2(series)[i]
        diff == (MadScale * 2 * dev2) \div 10 - 100 * T * Mad4(series)
    IN diff > (400 * T) \div EpsInv

detect_anomalies_mad(series, threshold) ==
    IF Len(series) < 2 THEN AllFalse(Len(series))
    ELSE [i \in 1..Len(series) |-> MadExceeds(series, i, threshold)]

\* What IsolationForest(...).fit_predict may answer for n points: a label
\* (1 inlier, -1 outlier) per point, or an exception.  The ensemble is
\* library code; the model leaves its answer open.
IsoFits(n) ==
    {[ok |-> TRUE, preds |-> p] : p \in [1..n -> {1, -1}]}
        \cup {[ok |-> FALSE, preds |-> <<>>]}

\* The detectors' result: the flags, or raised when the call did not return.
Returned(flags) == [raised |-> FALSE, flags |-> flags]

Raised == [raised |-> TRUE, flags |-> <<>>]

\* No try/except surrounds fit_predict: its exception leaves the function.
detect_anomalies_isolation_forest(series, contamination, fit) ==
    IF Len(series) < 2 THEN Returned(AllFalse(Len(series)))
    ELSE IF fit.ok THEN Returned([i \in 1..Len(series) |-> fit.preds[i] = -1])
    ELSE Raised

\* The dispatch on the selected method.
Detect(m, series, p, fit) ==
    IF m = ZSCORE THEN Returned(detect_anomalies_zscore(series, p))
    ELSE IF m = MAD THEN Returned(detect_anomalies_mad(series, p))
    ELSE detect_anomalies_isolation_forest(series, p, fit)

\* The library is consulted only by the Isolation Forest on two or more points.
FitsFor(m, n) ==
    IF m = IFOREST /\ n >= 2 THEN IsoFits(n) ELSE {[ok |-> TRUE, preds |-> <<>>]}

\* The detection gate of the loop.
DetectionRuns(series, w) == Len(series) >= w

\* The log entry of an anomalous value (the wall-clock stamp is not modelled).
LogEntry(v) == [anomaly |-> v]

\* anomaly_log.insert(0, entry)
LogInsert(log, entry) == <<entry>> \o log

\* if len(anomaly_log) > 50: anomaly_log = anomaly_log[:50]
LogTruncate(log) == IF Len(log) > LogCap THEN SubSeq(log, 1, LogCap) ELSE log

\* The index recorded with an anomaly: time_step has been incremented already.
AnomalyIndex(ts) == ts - 1

\* all_anomalies.append((index, value))
RecordAnomaly(hist, idx, v) == Append(hist, <<idx, v>>)

(***************************************************************************)
(* Initial state: the session state after the first script run.            *)
(***************************************************************************)
InitCore ==
    /\ running = FALSE
    /\ data = <<>>
    /\ anomaly_log = <<>>
    /\ price = StartPrice
    /\ all_data = <<>>
    /\ all_anomalies = <<>>
    /\ time_step = 0
    /\ pc = "static"
    /\ lastStep = "init"
    /\ dropped = 0
    /\ pushes = <<>>
    /\ stops = 0

\* The window-size slider may be set before the first Start: every size of
\* the range is a first state of the session.
Init ==
    /\ InitCore
    /\ window_size \in WindowSizes
    /\ maxlen = window_size
    /\ method = ZSCORE
    /\ param = ParamDefault(ZSCORE)

(***************************************************************************)
(* Script runs.  Every run handles its event, executes the deque           *)
(* re-creation and then enters the loop when running.                      *)
(***************************************************************************)
\* Mutant of Recreate: the oldest elements are kept.
RecreateKeepsOldest(d, w) == IF Len(d) > w THEN SubSeq(d, 1, w) ELSE d

\* if window_size != data.maxlen: data = deque(list(data), maxlen=window_size)
Recreate(d, w) == deque_new(d, w)

AfterRun(r) == IF r THEN "loop" ELSE "static"

\* The rest of a run once its event is handled, for the window d, the pushes
\* ps, the running flag r and the slider value w.  With stop the script is
\* stopped at line 88 by the next event, before the re-creation (a stop
\* there leaves a trace only when the slider differs from the maxlen).
RunTail(d, ps, r, w, stop) ==
    /\ stop => w # maxlen
    /\ data' = IF ~stop /\ w # maxlen THEN Recreate(d, w) ELSE d
    /\ maxlen' = IF stop THEN maxlen ELSE w
    /\ pushes' = IF ~stop /\ w # maxlen THEN <<>> ELSE ps
    /\ dropped' = Len(data) - Len(data')
    /\ pc' = IF stop THEN "stopped" ELSE AfterRun(r)
    /\ stops' = IF stop THEN stops + 1 ELSE stops

Start(stop) ==
    /\ running' = TRUE
    /\ RunTail(data, pushes, TRUE, window_size, stop)
    /\ lastStep' = IF stop THEN "start_cut" ELSE "start"
    /\ UNCHANGED <<anomaly_log, price, all_data, all_anomalies, time_step,
                   method, window_size, param>>

Stop(stop) ==
    /\ running' = FALSE
    /\ RunTail(data, pushes, FALSE, window_size, stop)
    /\ lastStep' = IF stop THEN "stop_cut" ELSE "stop"
    /\ UNCHANGED <<anomaly_log, price, all_data, all_anomalies, time_step,
                   method, window_size, param>>

\* The Reset handler, stopped after its first `done` statements (lines 69 to
\* 75 are statements 1 to 7); 8 is the whole run, re-creation included.
Reset(done) ==
    /\ running' = FALSE
    /\ anomaly_log' = IF done >= 3 THEN <<>> ELSE anomaly_log
    /\ price' = IF done >= 4 THEN StartPrice ELSE price
    /\ all_data' = IF done >= 5 THEN <<>> ELSE all_data
    /\ all_anomalies' = IF done >= 6 THEN <<>> ELSE all_anomalies
    /\ time_step' = IF done >= 7 THEN 0 ELSE time_step
    /\ IF done = 8
       THEN RunTail(<<>>, <<>>, FALSE, window_size, FALSE)
       ELSE /\ data' = IF done >= 2 THEN <<>> ELSE data
            /\ pushes' = IF done >= 2 THEN <<>> ELSE pushes
            /\ dropped' = Len(data) - Len(data')
            /\ maxlen' = maxlen
            /\ pc' = "stopped"
    /\ lastStep' = IF done = 8 THEN "reset" ELSE "reset_cut"
    /\ IF done = 8 THEN TRUE ELSE stops' = stops + 1
    /\ UNCHANGED <<method, window_size, param>>

ResetPlaces == 1..8

ChangeMethod(m, p, stop) ==
    /\ m # method
    /\ method' = m
    /\ param' = p
    /\ RunTail(data, pushes, running, window_size, stop)
    /\ lastStep' = IF stop THEN "method_cut" ELSE "method"
    /\ UNCHANGED <<running, anomaly_log, price, all_data, all_anomalies,
                   time_step, window_size>>

ChangeParam(p, stop) ==
    /\ p # param
    /\ param' = p
    /\ RunTail(data, pushes, running, window_size, stop)
    /\ lastStep' = IF stop THEN "param_cut" ELSE "param"
    /\ UNCHANGED <<running, anomaly_log, price, all_data, all_anomalies,
                   time_step, method>>
    /\ window_size' = window_size

Resize(w, stop) ==
    /\ w # window_size
    /\ window_size' = w
    /\ RunTail(data, pushes, running, w, stop)
    /\ lastStep' = IF stop THEN "resize_cut" ELSE "resize"
    /\ UNCHANGED <<running, anomaly_log, price, all_data, all_anomalies,
                   time_step, method, param>>

(***************************************************************************)
(* One iteration of the simulation loop, stopped after its first `done`    *)
(* session-state changes:                                                  *)
(*   1 price += drift + shock (156)   2 price = max(price, 10) (157)       *)
(*   3 data.append (160)              4 all_data.append (161)              *)
(*   5 time_step += 1 (163), stopped at line 165, before detection         *)
(*   6 the same changes, stopped at line 179, after detection flagged      *)
(*   7 anomaly_log.insert (179)       8 all_anomalies.append (180)         *)
(*   9 the whole iteration, the cap of the log (182-183) included          *)
(* Places 6, 7 and 8 exist only on a tick whose newest element is flagged. *)
(***************************************************************************)
TickPlaces == 1..9

TickLabel(done) ==
    IF done = 1 THEN "tick_cut_price"
    ELSE IF done = 2 THEN "tick_cut_clamp"
    ELSE IF done = 3 THEN "tick_cut_push"
    ELSE IF done = 4 THEN "tick_cut_history"
    ELSE IF done = 5 THEN "tick_cut_count"
    ELSE IF done = 6 THEN "tick_cut_flagged"
    ELSE IF done = 7 THEN "tick_cut_log"
    ELSE "tick_cut_record"

Tick(step, fit, done) ==
    /\ pc = "loop"
    /\ running
    /\ LET raw == price + step
           p == Max2(raw, PriceFloor)
           series == deque_append(data, maxlen, p)
           runs == DetectionRuns(series, window_size)
           res == Detect(method, series, param, fit)
           flagged == runs /\ ~res.raised /\ res.flags[Len(series)]
           entry == LogEntry(series[Len(series)])
       IN /\ done \in {6, 7, 8} => flagged
          /\ price' = IF done = 1 THEN raw ELSE p
          /\ data' = IF done >= 3 THEN series ELSE data
          /\ pushes' = IF done >= 3 THEN Append(pushes, p) ELSE pushes
          /\ dropped' = IF done >= 3 THEN Len(data) + 1 - Len(series) ELSE 0
          /\ all_data' = IF done >= 4 THEN Append(all_data, p) ELSE all_data
          /\ time_step' = IF done >= 5 THEN time_step + 1 ELSE time_step
          /\ anomaly_log' =
                IF done >= 7 /\ flagged
                THEN IF done = 9 THEN LogTruncate(LogInsert(anomaly_log, entry))
                     ELSE LogInsert(anomaly_log, entry)
                ELSE anomaly_log
          /\ all_anomalies' =
                IF done >= 8 /\ flagged
                THEN RecordAnomaly(all_anomalies, AnomalyIndex(time_step'),
                                   series[Len(series)])
                ELSE all_anomalies
          /\ stops' = IF done < 9 THEN stops + 1 ELSE stops
          /\ pc' = IF done < 9 THEN "stopped"
                   ELSE IF runs /\ res.raised THEN "error"
                   ELSE "loop"
          /\ lastStep' =
                IF done < 9 THEN TickLabel(done)
                ELSE IF ~runs THEN "tick_skipped"
                ELSE IF res.raised THEN "tick_raised"
                ELSE IF flagged THEN "tick_anomaly"
                ELSE "tick_clean"
    /\ UNCHANGED <<running, maxlen, method, window_size, param>>

\* The generator's draws explored, and the library's answers for the window
\* the tick will hold.
Draws == {d \in Deltas : price + d <= MaxPrice /\ price + d >= PriceFloor - MaxDip}

Fits == FitsFor(method, Min2(Len(data) + 1, maxlen))

\* The run explored holds fewer than n pushes, values and counted ticks.
Within(n) == time_step < n /\ Len(all_data) < n /\ Len(pushes) < n

\* The choices explored of whether a run is stopped before the re-creation,
\* and of where a Reset and a tick are stopped.
StopChoices == IF stops < MaxStops THEN BOOLEAN ELSE {FALSE}

ResetChoices == IF stops < MaxStops THEN ResetPlaces ELSE {8}

TickChoices == IF stops < MaxStops THEN TickPlaces ELSE {9}

Next ==
    \/ \E s \in StopChoices : Start(s)
    \/ \E s \in StopChoices : Stop(s)
    \/ \E k \in ResetChoices : Reset(k)
    \/ \E m \in Methods : \E p \in ParamChoices(m) : \E s \in StopChoices :
          ChangeMethod(m, p, s)
    \/ \E p \in ParamChoices(method) : \E s \in StopChoices : ChangeParam(p, s)
    \/ \E w \in WindowSizes : \E s \in StopChoices : Resize(w, s)
    \/ \E d \in Draws : \E f \in Fits : \E k \in TickChoices :
          Within(MaxTicks) /\ Tick(d, f, k)

Spec == Init /\ [][Next]_vars

(***************************************************************************)
(* The end-to-end scenarios: capacity 5, Z-Score or MAD at the default     *)
(* threshold, no configuration change.                                     *)
(***************************************************************************)
InitScenario ==
    /\ InitCore
    /\ window_size = 5
    /\ maxlen = window_size
    /\ method \in {ZSCORE, MAD}
    /\ param = ParamDefault(method)

NextScenario ==
    \/ Start(FALSE)
    \/ Stop(FALSE)
    \/ \E d \in Draws : \E f \in Fits : \E k \in TickChoices :
          Within(ScenarioTicks) /\ Tick(d, f, k)

SpecScenario == InitScenario /\ [][NextScenario]_vars

(***************************************************************************)
(* A long run for the log cap: the smallest window, the Isolation Forest,  *)
(* a generator whose value changes on every tick, ticks that are stopped   *)
(* only once detection has run, and at most MaxClean counted ticks that    *)
(* emit no record.                                                         *)
(***************************************************************************)
InitLog ==
    /\ InitCore
    /\ window_size = MinWindow
    /\ maxlen = window_size
    /\ method = IFOREST
    /\ param = ParamDefault(IFOREST)

\* Ticks that emitted no record.
Misses == time_step - Len(all_anomalies)

NextLog ==
    \/ Start(FALSE)
    \/ \E d \in Draws : \E f \in Fits : \E k \in TickChoices \ (1..5) :
          /\ Within(LogTicks)
          /\ Tick(d, f, k)
          /\ price' # price
          /\ Misses' <= window_size - 1 + MaxClean

SpecLog == InitLog /\ [][NextLog]_vars

(***************************************************************************)
(* Properties.                                                             *)
(***************************************************************************)
\* The ticks that ran to their end.
TickSteps == {"tick_skipped", "tick_clean", "tick_anomaly", "tick_raised"}

\* The ticks that were stopped after their push.
PushedCutSteps == {"tick_cut_push", "tick_cut_history", "tick_cut_count",
                   "tick_cut_flagged", "tick_cut_log", "tick_cut_record"}

\* The ticks on which a detector ran, and those on which it flagged the
\* newest element.
DetectedSteps == {"tick_clean", "tick_anomaly", "tick_raised",
                  "tick_cut_flagged", "tick_cut_log", "tick_cut_record"}

FlaggedSteps == {"tick_anomaly", "tick_cut_flagged", "tick_cut_log",
                 "tick_cut_record"}

ResetSteps == {"reset", "reset_cut"}

\* The log entries of the k most recent records, newest first.
RecentEntries(hist, k) ==
    Reverse([i \in 1..k |-> LogEntry(LastK(hist, k)[i][2])])

\* C1: the window never holds more than its capacity (which is the configured
\* one whenever a run got past the re-creation), it ends with the values
\* pushed since it was last re-created or cleared, and once capacity or more
\* values have been pushed it holds exactly the last capacity pushed values in
\* push order.
WindowFIFO ==
    /\ Len(data) <= maxlen
    /\ pc # "stopped" => maxlen = window_size
    /\ Len(data) >= Min2(Len(pushes), maxlen)
    /\ LastK(data, Min2(Len(pushes), maxlen)) = LastK(pushes, Min2(Len(pushes), maxlen))
    /\ Len(pushes) >= maxlen =>
          /\ Len(data) = maxlen
          /\ data = LastK(pushes, maxlen)

\* C1 witness: a push onto a full window evicted one element, and the evicted
\* (oldest) value differs from the new oldest one.
WindowFIFOWitness ==
    /\ lastStep \in TickSteps \cup PushedCutSteps
    /\ Len(pushes) > maxlen
    /\ dropped = 1
    /\ pushes[Len(pushes) - maxlen] # data[1]

\* C2: on a tick a detector runs only when the window, after the push, has
\* reached the configured capacity, a tick that leaves the window below
\* capacity emits no record, and the tick whose push brings the window up to
\* the capacity runs detection.
DetectionGated ==
    [][lastStep' \in TickSteps \cup PushedCutSteps =>
          /\ lastStep' \in DetectedSteps => Len(data') >= window_size'
          /\ Len(data') < window_size' =>
                (all_anomalies' = all_anomalies /\ anomaly_log' = anomaly_log)
          /\ (Len(data) < window_size /\ Len(data') = window_size') =>
                lastStep' \in DetectedSteps]_vars

ScenarioPushes == <<10, 10, 10, 10, 10, 100>>

ScenarioWindow == <<10, 10, 10, 10, 100>>

IsScenarioPrefix(s) ==
    /\ Len(s) <= 5
    /\ s = SubSeq(ScenarioPushes, 1, Len(s))

\* C3 as stated: after 10 five times and then 100 (capacity 5, Z-Score,
\* threshold 3.0) the window is [10,10,10,10,100] with mean 28, the value 100
\* is flagged, a tick that ran to its end recorded it, and nothing is recorded
\* before.
ZScoreScenarioFlagged ==
    (method = ZSCORE /\ param = 30 /\ window_size = 5) =>
        /\ IsScenarioPrefix(pushes) => all_anomalies = <<>>
        /\ pushes = ScenarioPushes =>
              /\ data = ScenarioWindow
              /\ Sum(data) = 28 * Len(data)
              /\ detect_anomalies_zscore(data, param)[5]
              /\ lastStep \in TickSteps => all_anomalies = <<<<time_step - 1, 100>>>>

\* C3 amended: in the same scenario the window is [10,10,10,10,100] with mean
\* 28 and population deviation 36, the value 100 lies exactly two deviations
\* from the mean, so its |z| (just under 2) does not exceed 3.0: no element is
\* flagged and no record is emitted, on the sixth push or on the first five.
ZScoreScenarioMasked ==
    (method = ZSCORE /\ param = 30 /\ window_size = 5) =>
        /\ IsScenarioPrefix(pushes) => all_anomalies = <<>>
        /\ pushes = ScenarioPushes =>
              /\ data = ScenarioWindow
              /\ Sum(data) = 28 * Len(data)
              /\ 5 * SumSq(data) - Sum(data) * Sum(data) = (5 * 36) * (5 * 36)
              /\ Abs(5 * data[5] - Sum(data)) = 2 * (5 * 36)
              /\ detect_anomalies_zscore(data, param) = AllFalse(5)
              /\ lastStep \in TickSteps => lastStep = "tick_clean"
              /\ all_anomalies = <<>>
              /\ anomaly_log = <<>>

\* C3 witness: the six pushes have been made under Z-Score and detection ran
\* on the sixth.
ZScoreScenarioWitness ==
    /\ method = ZSCORE
    /\ window_size = 5
    /\ pushes = ScenarioPushes
    /\ lastStep = "tick_clean"

\* C4: in the same scenario under MAD with threshold 3.5 the result over
\* [10,10,10,10,100] is true for 100 and false for the four 10s, a tick that
\* runs to its end records 100, and nothing is flagged or recorded on the
\* first five pushes.
MadScenarioFlagged ==
    (method = MAD /\ param = 35 /\ window_size = 5) =>
        /\ IsScenarioPrefix(pushes) => (all_anomalies = <<>> /\ anomaly_log = <<>>)
        /\ pushes = SubSeq(ScenarioPushes, 1, 5) =>
              /\ data = SubSeq(ScenarioPushes, 1, 5)
              /\ detect_anomalies_mad(data, param) = AllFalse(5)
        /\ pushes = ScenarioPushes =>
              /\ data = ScenarioWindow
              /\ detect_anomalies_mad(data, param) = <<FALSE, FALSE, FALSE, FALSE, TRUE>>
              /\ lastStep \in TickSteps =>
                    /\ lastStep = "tick_anomaly"
                    /\ all_anomalies = <<<<time_step - 1, 100>>>>
                    /\ anomaly_log = <<LogEntry(100)>>

\* C4 witness: the six pushes have been made under MAD and the sixth emitted
\* a record.
MadScenarioWitness ==
    /\ method = MAD
    /\ window_size = 5
    /\ pushes = ScenarioPushes
    /\ lastStep = "tick_anomaly"

\* C5: once Reset was pressed the session holds the state of a fresh session
\* with the current configuration (empty window, empty histories, time_step
\* 0, price 100, not running), and the first tick from such a state records
\* its observation at index 0 without running detection.
ResetRestoresInitial ==
    /\ [](lastStep \in ResetSteps =>
            /\ running = FALSE
            /\ data = <<>>
            /\ anomaly_log = <<>>
            /\ all_data = <<>>
            /\ all_anomalies = <<>>
            /\ time_step = 0
            /\ price = StartPrice)
    /\ [][(time_step = 0 /\ lastStep' \in TickSteps) =>
            /\ time_step' = 1
            /\ all_data' = <<price'>>
            /\ data' = <<price'>>
            /\ lastStep' = "tick_skipped"
            /\ all_anomalies' = <<>>]_vars

\* C6: a change of the window's capacity, other than in a Reset's run, leaves
\* the most recent min(new capacity, previous length) observations in their
\* order, under the configured capacity; and no step but a tick or a Reset
\* changes the window otherwise.
ResizeKeepsRecent ==
    [][/\ (maxlen' # maxlen /\ lastStep' \notin ResetSteps) =>
             /\ data' = LastK(data, Min2(maxlen', Len(data)))
             /\ maxlen' = window_size'
       /\ (maxlen' = maxlen /\ lastStep' \notin ResetSteps
              /\ lastStep' \notin TickSteps \cup PushedCutSteps) =>
             data' = data]_vars

\* C6 witness: a shrink evicted from a window whose two oldest survivors differ.
ResizeWitness ==
    /\ lastStep = "resize"
    /\ dropped > 0
    /\ Len(data) >= 2
    /\ data[1] # data[2]

\* C7: when the Isolation Forest raises on a tick, the tick counts as one
\* without anomalies and the loop goes on.
IsoFailureContained ==
    lastStep = "tick_raised" => pc = "loop"

\* C8: the history changes only by a tick appending one record for the value
\* it pushed, which a tick does exactly when detection ran and flagged the
\* newest element, or by Reset emptying it.
AnomalyHistoryAppendOnly ==
    [][/\ \/ all_anomalies' = all_anomalies
          \/ lastStep' \in ResetSteps /\ all_anomalies' = <<>>
          \/ /\ lastStep' \in FlaggedSteps
             /\ all_anomalies' = Append(all_anomalies, <<time_step, price'>>)
             /\ data'[Len(data')] = price'
       /\ lastStep' \in TickSteps \cup PushedCutSteps =>
             (all_anomalies' # all_anomalies <=> lastStep' \in FlaggedSteps)]_vars

\* C9: the log holds at most 50 entries: those of the min(50, number of
\* records) most recent records, newest first.
LogCapped ==
    /\ Len(anomaly_log) <= LogCap
    /\ anomaly_log = RecentEntries(all_anomalies, Min2(LogCap, Len(all_anomalies)))

\* C10: after a tick that ran to its end and after a Reset, time_step is the
\* length of all_data, the window is the tail of all_data, and every record
\* holds an index below time_step, the value all_data holds there, and a
\* larger index than the record before it.
HistoryConsistent ==
    lastStep \in TickSteps \cup ResetSteps =>
        /\ time_step = Len(all_data)
        /\ Len(data) <= Len(all_data)
        /\ data = LastK(all_data, Len(data))
        /\ \A k \in 1..Len(all_anomalies) :
              /\ all_anomalies[k][1] >= 0
              /\ all_anomalies[k][1] < time_step
              /\ all_data[all_anomalies[k][1] + 1] = all_anomalies[k][2]
              /\ k > 1 => all_anomalies[k - 1][1] < all_anomalies[k][1]

====
